---- MODULE Spec2Model ----
(***************************************************************************)
(* Model of poke_db/pokemon_csv.py: a script that walks the Pokemon ids    *)
(* in ascending order, fetches the Pokemon, species and evolution-chain    *)
(* resources of each id over HTTP, and streams one CSV row per id.         *)
(*                                                                         *)
(* Conventions                                                             *)
(*   - a Python dict is a TLA+ function whose domain is the key set;       *)
(*   - a Python list is a sequence;                                        *)
(*   - names and URLs are strings; a flavor text is a sequence of          *)
(*     one-character strings, so that str.replace can be computed;         *)
(*   - Python's None is the string NoneValue, which is no species name;    *)
(*   - a call that may raise returns a record with a field "raised".       *)
(***************************************************************************)
EXTENDS Integers, Sequences, FiniteSets, TLC

VARIABLES
    pc,                  \* position of the script
    id,                  \* loop variable of line 41
    opens,               \* number of times pokemon.csv has been opened
    csvfile,             \* rows of pokemon.csv, the header row first
    evo_cache,           \* line 27: chain URL -> parsed evolution mapping
    requests,            \* every requests.get issued so far, with its response
    basic,               \* the locals of lines 48-63 (name, type_primary, hp, ...)
    species_url,         \* line 66
    description,         \* lines 72-76
    evolution_chain_url, \* line 83
    evo_dict,            \* lines 87 / 90
    arg,                 \* input of the function under study (pure-function specs)
    result               \* what that function returned

vars == <<pc, id, opens, csvfile, evo_cache, requests, basic, species_url,
          description, evolution_chain_url, evo_dict, arg, result>>

----------------------------------------------------------------------------
(* Bounds of the model *)

\* the script's range(1, 152) ends at 151; the model walks 1..LastId
LastId == 3

\* largest number of nodes of an evolution-chain tree given to the parser
MaxNodes == 4

\* largest number of flavor_text_entries given to the description loop
MaxEntries == 3

----------------------------------------------------------------------------
(* Python values *)

NoneValue == "<None>"

EmptyDict == [k \in {} |-> {}]

\* d[k] = v
DictSet(d, k, v) == [x \in DOMAIN d \cup {k} |-> IF x = k THEN v ELSE d[x]]

\* d.get(k, default)
DictGet(d, k, default) == IF k \in DOMAIN d THEN d[k] ELSE default

\* a bug: d.get(k, 0) where d[k] was meant
SubscriptOrZero(d, k) ==
    [raised |-> FALSE, value |-> IF k \in DOMAIN d THEN d[k] ELSE 0]

\* d[k], which raises KeyError when k is no key of d
Subscript(d, k) ==
    IF k \in DOMAIN d THEN [raised |-> FALSE, value |-> d[k]]
    ELSE [raised |-> TRUE]

\* truth value of a str-or-None
Truthy(x) == x # NoneValue /\ x # ""

\* a bug: only the first item is rendered
RECURSIVE JoinFirst(_, _)
JoinFirst(sep, items) ==
    IF Len(items) = 0 THEN ""
    ELSE items[1]

\* sep.join(items)
RECURSIVE Join(_, _)
Join(sep, items) ==
    IF Len(items) = 0 THEN ""
    ELSE IF Len(items) = 1 THEN items[1]
    ELSE items[1] \o sep \o Join(sep, Tail(items))

\* a bug: s.replace(old, new, 1)
RECURSIVE ReplaceFirstOnly(_, _, _)
ReplaceFirstOnly(s, old, new) ==
    IF Len(s) = 0 THEN <<>>
    ELSE IF Head(s) = old THEN new \o Tail(s)
    ELSE <<Head(s)>> \o ReplaceFirstOnly(Tail(s), old, new)

\* s.replace(old, new) for a one-character old
RECURSIVE Replace(_, _, _)
Replace(s, old, new) ==
    IF Len(s) = 0 THEN <<>>
    ELSE IF Head(s) = old THEN new \o Replace(Tail(s), old, new)
    ELSE <<Head(s)>> \o Replace(Tail(s), old, new)

----------------------------------------------------------------------------
(* fetch_data, lines 5-9 *)

\* requests.get(url) has answered `response`; raise_for_status, which raises
\* for the client and server error classes 400..599 only, then .json()
fetch_data(response) ==
    IF 400 <= response.status_code /\ response.status_code < 600
    THEN [raised |-> TRUE]
    ELSE [raised |-> FALSE, json |-> response.json]

----------------------------------------------------------------------------
(* parse_evolution_chain, lines 12-24 *)

\* The traversal state: evo_dict of line 13, whether a KeyError was raised,
\* and the species urls of the nodes recurse_chain was entered for, in order.
ParseStart == [raised |-> FALSE, evo_dict |-> EmptyDict, visited |-> <<>>]

HasName(node) == "name" \in DOMAIN node.species

\* a bug: the predecessor is not recorded
NewEntryNoFrom(previous) == [from |-> NoneValue, to |-> <<>>]

\* line 17: the entry a node gets when recurse_chain enters it
NewEntry(previous) == [from |-> previous, to |-> <<>>]

\* a bug: evo_dict[species_name]["to"].insert(0, evo_name)
PrependTo(d, species_name, evo_name) ==
    [d EXCEPT ![species_name].to = <<evo_name>> \o @]

\* line 20: evo_dict[species_name]["to"].append(evo_name)
AppendTo(d, species_name, evo_name) ==
    [d EXCEPT ![species_name].to = Append(@, evo_name)]

RECURSIVE recurse_chain(_, _, _)
RECURSIVE recurse_loop(_, _, _, _)

\* the for loop of lines 18-21, from its i-th iteration on
recurse_loop(st, current, species_name, i) ==
    IF st.raised \/ i > Len(current.evolves_to) THEN st
    ELSE LET evo == current.evolves_to[i] IN
         IF ~HasName(evo) THEN [st EXCEPT !.raised = TRUE]
         ELSE LET evo_name == evo.species.name
                  appended == [st EXCEPT !.evo_dict =
                                   AppendTo(@, species_name, evo_name)]
              IN recurse_loop(recurse_chain(appended, evo, species_name),
                              current, species_name, i + 1)

\* lines 15-21
recurse_chain(st, current, previous) ==
    IF ~HasName(current) THEN [st EXCEPT !.raised = TRUE]
    ELSE LET species_name == current.species.name
             entered == [st EXCEPT
                 !.evo_dict = DictSet(@, species_name, NewEntry(previous)),
                 !.visited = Append(@, current.species.url)]
         IN recurse_loop(entered, current, species_name, 1)

\* lines 12-24
parse_evolution_chain(chain) == recurse_chain(ParseStart, chain.chain, NoneValue)

----------------------------------------------------------------------------
(* description extraction, lines 71-76 *)

Qualifies(entry) ==
    entry.language.name = "en" /\ entry.version.name \in {"red", "blue"}

Normalize(flavor_text) == Replace(Replace(flavor_text, "\n", <<" ">>), "\f", <<>>)

\* the for loop of lines 73-76, from its i-th iteration on
RECURSIVE description_loop(_, _)
description_loop(flavor_text_entries, i) ==
    IF i > Len(flavor_text_entries) THEN <<>>
    ELSE IF Qualifies(flavor_text_entries[i])
         THEN Normalize(flavor_text_entries[i].flavor_text)
         ELSE description_loop(flavor_text_entries, i + 1)

extract_description(flavor_text_entries) == description_loop(flavor_text_entries, 1)

----------------------------------------------------------------------------
(* The evolution-chain documents given to the parser *)

SpeciesNames == {"bulbasaur", "ivysaur", "venusaur"}

SpeciesUrl(i) == "https://pokeapi.co/api/v2/pokemon-species/" \o ToString(i) \o "/"

RECURSIVE Ascending(_)
Ascending(S) ==
    IF S = {} THEN <<>>
    ELSE LET m == CHOOSE x \in S : \A y \in S : x <= y
         IN <<m>> \o Ascending(S \ {m})

\* The chain node numbered i of the tree with n nodes in which node j > 1 hangs
\* under node parent[j] < j, siblings in ascending order, and node j carries
\* the species name label[j] (no "name" key at all when label[j] is NoneValue).
RECURSIVE ChainNode(_, _, _, _)
ChainNode(n, parent, label, i) ==
    LET kids == Ascending({j \in (i + 1)..n : parent[j] = i})
    IN [species |-> IF label[i] = NoneValue
                    THEN [url |-> SpeciesUrl(i)]
                    ELSE [name |-> label[i], url |-> SpeciesUrl(i)],
        evolves_to |-> [k \in 1..Len(kids) |-> ChainNode(n, parent, label, kids[k])]]

Parents(n) == {p \in [2..n -> 1..n] : \A j \in 2..n : p[j] < j}

\* the ways of naming n nodes, a node without a name included
Labels(n) == [1..n -> SpeciesNames \cup {NoneValue}]

\* the evolution-chain response body of n nodes shaped by p and named by l
ChainDocument(n, p, l) == [chain |-> ChainNode(n, p, l, 1)]

----------------------------------------------------------------------------
(* The flavor_text_entries given to the description loop *)

FlavorTexts == {<<"a", "\n", "b", "\f", "c">>, <<"\f", "\n", "\n", "z">>, <<>>}

FlavorEntries ==
    {[language |-> [name |-> l], version |-> [name |-> v], flavor_text |-> t] :
        l \in {"en", "ja"}, v \in {"red", "blue", "gold"}, t \in FlavorTexts}

FlavorLists(n) == [1..n -> FlavorEntries]

----------------------------------------------------------------------------
(* Specifications of the two functions on their own *)

Idle ==
    /\ id = 0 /\ opens = 0 /\ csvfile = <<>> /\ evo_cache = EmptyDict
    /\ requests = <<>> /\ basic = EmptyDict /\ species_url = ""
    /\ description = <<>> /\ evolution_chain_url = "" /\ evo_dict = EmptyDict

IdleUnchanged ==
    UNCHANGED <<id, opens, csvfile, evo_cache, requests, basic, species_url,
                description, evolution_chain_url, evo_dict>>

InitParse ==
    /\ Idle
    /\ pc = "call"
    /\ \E n \in 1..MaxNodes : \E p \in Parents(n) : \E l \in Labels(n) :
           arg = ChainDocument(n, p, l)
    /\ result = EmptyDict

CallParse ==
    /\ pc = "call"
    /\ result' = parse_evolution_chain(arg)
    /\ pc' = "return"
    /\ UNCHANGED arg
    /\ IdleUnchanged

SpecParse == InitParse /\ [][CallParse]_vars

InitDescription ==
    /\ Idle
    /\ pc = "call"
    /\ \E n \in 0..MaxEntries : arg \in FlavorLists(n)
    /\ result = EmptyDict

CallDescription ==
    /\ pc = "call"
    /\ result' = [description |-> extract_description(arg)]
    /\ pc' = "return"
    /\ UNCHANGED arg
    /\ IdleUnchanged

SpecDescription == InitDescription /\ [][CallDescription]_vars

----------------------------------------------------------------------------
(* What the server answers during a run *)

PokemonUrl(k) == "https://pokeapi.co/api/v2/pokemon/" \o ToString(k) \o "/"

RequiredStats == <<"hp", "attack", "defense", "special-attack", "special-defense", "speed">>

TypeEntry(t) == [type |-> [name |-> t]]

\* the body of GET pokemon/{k}/ for a Pokemon called nm whose "stats" list
\* holds one entry for each name of statNames
PokemonDocument(k, nm, statNames) ==
    [name |-> nm,
     types |-> IF nm = "venusaur" THEN <<TypeEntry("grass")>>
               ELSE <<TypeEntry("grass"), TypeEntry("poison")>>,
     stats |-> [i \in 1..Len(statNames) |->
                   [stat |-> [name |-> statNames[i]], base_stat |-> 40 + i]],
     height |-> 7,
     weight |-> 69,
     sprites |-> [other |-> ("official-artwork" :>
                     [front_default |-> "artwork/" \o ToString(k) \o ".png"])],
     species |-> [url |-> SpeciesUrl(k)]]

HttpError == [status_code |-> 404, json |-> EmptyDict]

Ok(json) == [status_code |-> 200, json |-> json]

\* a status outside the HTTP classes, which raise_for_status lets through
Unclassified(json) == [status_code |-> 600, json |-> json]

PokemonResponses(k) ==
    {Ok(PokemonDocument(k, nm, RequiredStats)) : nm \in SpeciesNames}
    \cup {Ok(PokemonDocument(k, "bulbasaur", SubSeq(RequiredStats, 1, 5)))}
    \cup {HttpError}

\* a list whose second entry qualifies, and a list without a qualifying entry
WithEnglishBlue ==
    <<[language |-> [name |-> "ja"], version |-> [name |-> "red"],
       flavor_text |-> <<"x">>],
      [language |-> [name |-> "en"], version |-> [name |-> "blue"],
       flavor_text |-> <<"a", "\n", "b", "\f">>]>>

WithoutRedBlue ==
    <<[language |-> [name |-> "en"], version |-> [name |-> "gold"],
       flavor_text |-> <<"y">>]>>

ChainUrl(n) == "https://pokeapi.co/api/v2/evolution-chain/" \o ToString(n) \o "/"

SpeciesDocument(f, u) == [flavor_text_entries |-> f, evolution_chain |-> [url |-> u]]

SpeciesResponses ==
    {Ok(SpeciesDocument(WithEnglishBlue, ChainUrl(1))),
     Ok(SpeciesDocument(WithoutRedBlue, ChainUrl(2))),
     Ok(SpeciesDocument(WithoutRedBlue, ChainUrl(1))),
     HttpError}

\* bulbasaur -> ivysaur -> venusaur
LinearChain ==
    [chain |-> ChainNode(3, (2 :> 1) @@ (3 :> 2),
                         <<"bulbasaur", "ivysaur", "venusaur">>, 1)]

\* bulbasaur -> ivysaur, bulbasaur -> venusaur
BranchingChain ==
    [chain |-> ChainNode(3, (2 :> 1) @@ (3 :> 1),
                         <<"bulbasaur", "ivysaur", "venusaur">>, 1)]

\* bulbasaur -> ivysaur, a chain that does not hold venusaur
PairChain == [chain |-> ChainNode(2, (2 :> 1), <<"bulbasaur", "ivysaur">>, 1)]

\* a chain whose second node has no species name
NamelessChain ==
    [chain |-> ChainNode(2, (2 :> 1), <<"bulbasaur", NoneValue>>, 1)]

RunChainDocuments == {LinearChain, BranchingChain, PairChain, NamelessChain}

ChainResponses ==
    {Ok(d) : d \in RunChainDocuments} \cup {HttpError, Unclassified(PairChain)}

----------------------------------------------------------------------------
(* The record builder, lines 48-63 and 94-118 *)

\* lines 31-35
fieldnames ==
    <<"id", "pokedex_number", "name", "type_primary", "type_secondary",
      "hp", "attack", "defense", "special_attack", "special_defense", "speed",
      "height", "weight", "description", "evolution_from", "evolution_to",
      "image_url">>

\* x / 10 for an int x >= 0, as the decimal int.tenths
TrueDiv10(x) == [int |-> x \div 10, tenths |-> x % 10]

\* line 54: later entries of the list win
StatsDict(stats) ==
    [n \in {stats[i].stat.name : i \in 1..Len(stats)} |->
        LET last == CHOOSE i \in 1..Len(stats) :
                        /\ stats[i].stat.name = n
                        /\ \A j \in (i + 1)..Len(stats) : stats[j].stat.name # n
        IN stats[last].base_stat]

\* lines 48-63: the locals taken from the Pokemon payload
ExtractBasic(k, pokemon_data) ==
    LET types == [i \in 1..Len(pokemon_data.types) |-> pokemon_data.types[i].type.name]
        stats == StatsDict(pokemon_data.stats)
        hp == Subscript(stats, "hp")
        attack == Subscript(stats, "attack")
        defense == Subscript(stats, "defense")
        special_attack == Subscript(stats, "special-attack")
        special_defense == Subscript(stats, "special-defense")
        speed == Subscript(stats, "speed")
    IN IF \/ Len(types) = 0
          \/ hp.raised \/ attack.raised \/ defense.raised
          \/ special_attack.raised \/ special_defense.raised \/ speed.raised
       THEN [raised |-> TRUE]
       ELSE [raised |-> FALSE,
             locals |->
               [pokedex_number |-> k,
                name |-> pokemon_data.name,
                type_primary |-> types[1],
                type_secondary |-> IF Len(types) > 1 THEN types[2] ELSE "",
                hp |-> hp.value,
                attack |-> attack.value,
                defense |-> defense.value,
                special_attack |-> special_attack.value,
                special_defense |-> special_defense.value,
                speed |-> speed.value,
                height |-> TrueDiv10(pokemon_data.height),
                weight |-> TrueDiv10(pokemon_data.weight),
                image_url |-> pokemon_data.sprites.other["official-artwork"].front_default]]

\* a bug: a species absent from the mapping is given the entry of the chain's root
EvolutionDetailsOfRoot(mapping, nm) ==
    LET root == CHOOSE k \in DOMAIN mapping : mapping[k].from = NoneValue
        evo_details == DictGet(mapping, nm, mapping[root])
    IN [evolution_from |-> IF Truthy(evo_details.from) THEN evo_details.from ELSE "",
        evolution_to |-> IF Len(evo_details.to) > 0 THEN Join(", ", evo_details.to) ELSE ""]

\* lines 94-96
EvolutionDetails(mapping, nm) ==
    LET evo_details == DictGet(mapping, nm, [from |-> NoneValue, to |-> <<>>])
    IN [evolution_from |-> IF Truthy(evo_details.from) THEN evo_details.from ELSE "",
        evolution_to |-> IF Len(evo_details.to) > 0 THEN Join(", ", evo_details.to) ELSE ""]

\* lines 100-118: the dict handed to writer.writerow
RowDict(k, locals, desc, details) ==
    [x \in {"id", "description", "evolution_from", "evolution_to"} |->
        CASE x = "id" -> k
          [] x = "description" -> desc
          [] x = "evolution_from" -> details.evolution_from
          [] x = "evolution_to" -> details.evolution_to]
    @@ locals

\* csv.DictWriter.writerow: the values in header order, "" for a missing key
RowLine(row) == [i \in 1..Len(fieldnames) |-> DictGet(row, fieldnames[i], "")]

\* the value a written line holds in column `field`
Column(line, field) == line[CHOOSE i \in 1..Len(fieldnames) : fieldnames[i] = field]

----------------------------------------------------------------------------
(* The script, lines 26-119 *)

Init ==
    /\ pc = "open"
    /\ id = 0
    /\ opens = 0
    /\ csvfile = <<>>
    /\ evo_cache = EmptyDict
    /\ requests = <<>>
    /\ basic = EmptyDict
    /\ species_url = ""
    /\ description = <<>>
    /\ evolution_chain_url = ""
    /\ evo_dict = EmptyDict
    /\ arg = EmptyDict
    /\ result = EmptyDict

\* requests.get(url) of line 7, answered by `response`
Get(kind, url, response) ==
    requests' = Append(requests, [id |-> id, kind |-> kind, url |-> url,
                                  response |-> response])

\* a bug: the cache is never consulted
NeverInCache(cache, url) == FALSE

\* line 84: evolution_chain_url in evo_cache
InCache(cache, url) == url \in DOMAIN cache

\* a bug: a cache that keeps only the latest chain
CacheStoreEvict(cache, url, mapping) == DictSet(EmptyDict, url, mapping)

\* line 88: evo_cache[evolution_chain_url] = evo_dict
CacheStore(cache, url, mapping) == DictSet(cache, url, mapping)

\* a bug: range(1, 151)
LoopEndShort == LastId - 1

\* the value of `id` in the last iteration of range(1, 152)
LoopEnd == LastId

\* lines 30-41: open the file, write the header, enter the loop
OpenFile ==
    /\ pc = "open"
    /\ opens' = opens + 1
    /\ csvfile' = <<fieldnames>>
    /\ id' = 1
    /\ pc' = "pokemon"
    /\ UNCHANGED <<evo_cache, requests, basic, species_url, description,
                   evolution_chain_url, evo_dict, arg, result>>

\* lines 45-66: fetch the Pokemon payload and take the basic fields from it
FetchPokemon ==
    /\ pc = "pokemon"
    /\ \E response \in PokemonResponses(id) :
        /\ Get("pokemon", PokemonUrl(id), response)
        /\ LET fetched == fetch_data(response) IN
           IF fetched.raised
           THEN pc' = "failed" /\ UNCHANGED <<basic, species_url>>
           ELSE LET extracted == ExtractBasic(id, fetched.json) IN
                IF extracted.raised
                THEN pc' = "failed" /\ UNCHANGED <<basic, species_url>>
                ELSE /\ basic' = extracted.locals
                     /\ species_url' = fetched.json.species.url
                     /\ pc' = "species"
    /\ UNCHANGED <<id, opens, csvfile, evo_cache, description,
                   evolution_chain_url, evo_dict, arg, result>>

\* a bug: the row is written right after the species data, the evolution
\* mapping of the id never resolved
FetchSpeciesThenWrite ==
    /\ pc = "species"
    /\ \E response \in SpeciesResponses :
        /\ Get("species", species_url, response)
        /\ LET fetched == fetch_data(response) IN
           IF fetched.raised
           THEN pc' = "failed" /\ UNCHANGED <<description, evolution_chain_url>>
           ELSE /\ description' = extract_description(fetched.json.flavor_text_entries)
                /\ evolution_chain_url' = fetched.json.evolution_chain.url
                /\ pc' = "write"
    /\ UNCHANGED <<id, opens, csvfile, evo_cache, basic, species_url,
                   evo_dict, arg, result>>

\* lines 68-83: fetch the species payload, extract the description and the
\* evolution-chain URL
FetchSpecies ==
    /\ pc = "species"
    /\ \E response \in SpeciesResponses :
        /\ Get("species", species_url, response)
        /\ LET fetched == fetch_data(response) IN
           IF fetched.raised
           THEN pc' = "failed" /\ UNCHANGED <<description, evolution_chain_url>>
           ELSE /\ description' = extract_description(fetched.json.flavor_text_entries)
                /\ evolution_chain_url' = fetched.json.evolution_chain.url
                /\ pc' = "evolution"
    /\ UNCHANGED <<id, opens, csvfile, evo_cache, basic, species_url,
                   evo_dict, arg, result>>

\* lines 84-88: the URL is not cached: fetch the chain, parse it, store it
FetchChain ==
    /\ pc = "evolution"
    /\ ~InCache(evo_cache, evolution_chain_url)
    /\ \E response \in ChainResponses :
        /\ Get("chain", evolution_chain_url, response)
        /\ LET fetched == fetch_data(response) IN
           IF fetched.raised
           THEN pc' = "failed" /\ UNCHANGED <<evo_dict, evo_cache>>
           ELSE LET parsed == parse_evolution_chain(fetched.json) IN
                IF parsed.raised
                THEN pc' = "failed" /\ UNCHANGED <<evo_dict, evo_cache>>
                ELSE /\ evo_dict' = parsed.evo_dict
                     /\ evo_cache' = CacheStore(evo_cache, evolution_chain_url,
                                                parsed.evo_dict)
                     /\ pc' = "write"
    /\ UNCHANGED <<id, opens, csvfile, basic, species_url, description,
                   evolution_chain_url, arg, result>>

\* lines 89-91: the URL is cached
UseCache ==
    /\ pc = "evolution"
    /\ InCache(evo_cache, evolution_chain_url)
    /\ evo_dict' = evo_cache[evolution_chain_url]
    /\ pc' = "write"
    /\ UNCHANGED <<id, opens, csvfile, evo_cache, requests, basic, species_url,
                   description, evolution_chain_url, arg, result>>

\* lines 94-118, then the next iteration of line 41 or the end of the with block
WriteRow ==
    /\ pc = "write"
    /\ csvfile' = Append(csvfile,
           RowLine(RowDict(id, basic, description,
                           EvolutionDetails(evo_dict, basic.name))))
    /\ IF id < LoopEnd
       THEN id' = id + 1 /\ pc' = "pokemon"
       ELSE id' = id /\ pc' = "done"
    /\ UNCHANGED <<opens, evo_cache, requests, basic, species_url, description,
                   evolution_chain_url, evo_dict, arg, result>>

Next ==
    \/ OpenFile
    \/ FetchPokemon
    \/ FetchSpecies
    \/ FetchChain
    \/ UseCache
    \/ WriteRow

Spec == Init /\ [][Next]_vars

----------------------------------------------------------------------------
(* Properties of parse_evolution_chain, checked under SpecParse *)

\* every node of the tree rooted at `node`
RECURSIVE NodesOf(_)
NodesOf(node) ==
    {node} \cup UNION {NodesOf(node.evolves_to[i]) : i \in 1..Len(node.evolves_to)}

ValidTree(root) == \A n \in NodesOf(root) : HasName(n)

DistinctNames(root) ==
    \A n, m \in NodesOf(root) : n # m => n.species.name # m.species.name

ChildNames(node) == [i \in 1..Len(node.evolves_to) |-> node.evolves_to[i].species.name]

\* the parser entered every node exactly once
VisitedEachOnce(root, visited) ==
    /\ Len(visited) = Cardinality(NodesOf(root))
    /\ \A n \in NodesOf(root) :
           Cardinality({i \in 1..Len(visited) : visited[i] = n.species.url}) = 1

KeysAndSuccessors(root, mapping) ==
    /\ DOMAIN mapping = {n.species.name : n \in NodesOf(root)}
    /\ \A n \in NodesOf(root) : mapping[n.species.name].to = ChildNames(n)

Predecessors(root, mapping) ==
    /\ mapping[root.species.name].from = NoneValue
    /\ \A n \in NodesOf(root) : \A i \in 1..Len(n.evolves_to) :
           mapping[n.evolves_to[i].species.name].from = n.species.name

\* C4 as stated: for every valid evolution-chain tree the parser returns
\* having visited every node exactly once, the keys of the mapping are the
\* species names of the tree, and each node's "to" is the list of its
\* children's names in source order.
C4_AnyValidTree ==
    (pc = "return" /\ ValidTree(arg.chain)) =>
        /\ ~result.raised
        /\ VisitedEachOnce(arg.chain, result.visited)
        /\ KeysAndSuccessors(arg.chain, result.evo_dict)

\* C4 amended: the same for every valid tree whose nodes carry pairwise
\* distinct species names.
C4_DistinctNames ==
    (pc = "return" /\ ValidTree(arg.chain) /\ DistinctNames(arg.chain)) =>
        /\ ~result.raised
        /\ VisitedEachOnce(arg.chain, result.visited)
        /\ KeysAndSuccessors(arg.chain, result.evo_dict)

\* a parsed tree of distinct names with a node of two children and a
\* grandchild
C4_Witness ==
    /\ pc = "return"
    /\ ValidTree(arg.chain) /\ DistinctNames(arg.chain)
    /\ \E n \in NodesOf(arg.chain) : Len(n.evolves_to) = 2
    /\ Cardinality(DOMAIN result.evo_dict) = 3

\* C5 as stated: for every valid tree the root's "from" is None and every
\* other node's "from" is the species name of its parent.
C5_AnyValidTree ==
    (pc = "return" /\ ValidTree(arg.chain)) =>
        /\ ~result.raised
        /\ Predecessors(arg.chain, result.evo_dict)

\* C5 amended: the same for every valid tree whose nodes carry pairwise
\* distinct species names.
C5_DistinctNames ==
    (pc = "return" /\ ValidTree(arg.chain) /\ DistinctNames(arg.chain)) =>
        /\ ~result.raised
        /\ Predecessors(arg.chain, result.evo_dict)

\* a parsed chain of three distinct names, three levels deep
C5_Witness ==
    /\ pc = "return"
    /\ ValidTree(arg.chain) /\ DistinctNames(arg.chain)
    /\ \E n \in NodesOf(arg.chain) : \E i \in 1..Len(n.evolves_to) :
           /\ n # arg.chain
           /\ result.evo_dict[n.evolves_to[i].species.name].from = n.species.name

----------------------------------------------------------------------------
(* Properties of the description extraction, checked under SpecDescription *)

IsEnglishRedBlue(entry) ==
    /\ entry.language.name = "en"
    /\ entry.version.name = "red" \/ entry.version.name = "blue"

NotFormFeed(c) == c # "\f"

\* the text without its form-feeds, each newline turned into a space
Cleaned(text) ==
    LET kept == SelectSeq(text, NotFormFeed)
    IN [i \in 1..Len(kept) |-> IF kept[i] = "\n" THEN " " ELSE kept[i]]

\* C7: the description is the cleaned flavor text of the first entry that is
\* English and of version red or blue, whatever follows it, and the empty
\* string when no entry qualifies.
C7_FirstQualifyingEntry ==
    pc = "return" =>
        LET qualifying == {i \in 1..Len(arg) : IsEnglishRedBlue(arg[i])}
        IN IF qualifying = {}
           THEN result.description = <<>>
           ELSE LET first == CHOOSE i \in qualifying : \A j \in qualifying : i <= j
                IN result.description = Cleaned(arg[first].flavor_text)

\* two qualifying entries with different texts, the first one holding two
\* newlines and a form-feed
C7_Witness ==
    /\ pc = "return"
    /\ Len(arg) = 2
    /\ IsEnglishRedBlue(arg[1]) /\ IsEnglishRedBlue(arg[2])
    /\ arg[1].flavor_text = <<"\f", "\n", "\n", "z">>
    /\ arg[2].flavor_text # arg[1].flavor_text
    /\ result.description = <<" ", " ", "z">>

----------------------------------------------------------------------------
(* Reading the run: the file written so far and the requests issued so far *)

DataRows == IF Len(csvfile) = 0 THEN <<>> ELSE Tail(csvfile)

Last(seq) == seq[Len(seq)]

RequestsOf(k, kind) ==
    {i \in DOMAIN requests : requests[i].id = k /\ requests[i].kind = kind}

ChainRequestsFor(url) ==
    {i \in DOMAIN requests : requests[i].kind = "chain" /\ requests[i].url = url}

\* what the server answered to the request of `kind` issued for id k
Answer(k, kind) == requests[CHOOSE i \in RequestsOf(k, kind) : TRUE].response.json

\* the evolution-chain URL the species data of id k names
ChainUrlOf(k) == Answer(k, "species").evolution_chain.url

\* the chain document the server answered for `url`
ChainAnswer(url) == requests[CHOOSE i \in ChainRequestsFor(url) : TRUE].response.json

StatColumns ==
    <<"hp", "attack", "defense", "special_attack", "special_defense", "speed">>

\* the response makes the processing of its id fail: an HTTP error status
\* (4xx or 5xx), a Pokemon payload without one of the required stats, or a
\* chain with a node that has no species name
Failing(r) ==
    \/ r.response.status_code \in 400..599
    \/ /\ r.kind = "pokemon"
       /\ \E n \in 1..Len(RequiredStats) :
              \A i \in 1..Len(r.response.json.stats) :
                  r.response.json.stats[i].stat.name # RequiredStats[n]
    \/ /\ r.kind = "chain"
       /\ ~ValidTree(r.response.json.chain)

----------------------------------------------------------------------------
(* C2 *)

\* C2: the file is opened once, the header is its first row, the data rows
\* are those of the ids 1..k in ascending order for some k <= LastId, a run
\* that has not failed can always go on, and a run that ends without a
\* failure has written one data row for each id 1..LastId.
C2_RowsInIdOrder ==
    /\ opens <= 1
    /\ (pc = "open") = (opens = 0)
    /\ opens = 0 => csvfile = <<>>
    /\ opens = 1 => Len(csvfile) >= 1 /\ csvfile[1] = fieldnames
    /\ Len(DataRows) <= LastId
    /\ \A k \in 1..Len(DataRows) : Column(DataRows[k], "id") = k
    /\ pc = "done" => Len(DataRows) = LastId
    /\ pc \notin {"done", "failed"} => ENABLED Next

\* the run is over and the last row is that of the last id
C2_Witness ==
    pc = "done" /\ Len(DataRows) = LastId /\ Column(DataRows[LastId], "id") = LastId

----------------------------------------------------------------------------
(* C1 *)

C1_State ==
    /\ \A i, j \in DOMAIN requests :
           (/\ requests[i].kind = "chain" /\ requests[j].kind = "chain"
            /\ requests[i].url = requests[j].url) => i = j
    /\ \A u \in DOMAIN evo_cache : Cardinality(ChainRequestsFor(u)) = 1
    /\ pc = "write" =>
           /\ evolution_chain_url \in DOMAIN evo_cache
           /\ evo_dict = evo_cache[evolution_chain_url]
    \* the one fetch of a URL was issued for the first id that named it
    /\ \A k \in 1..Len(DataRows) :
           \E i \in ChainRequestsFor(ChainUrlOf(k)) :
               /\ requests[i].id <= k
               /\ \A j \in 1..k : ChainUrlOf(j) = ChainUrlOf(k) => requests[i].id <= j

C1_Step ==
    (pc = "evolution" /\ evolution_chain_url \in DOMAIN evo_cache) =>
        /\ requests' = requests
        /\ evo_cache' = evo_cache
        /\ evo_dict' = evo_cache[evolution_chain_url]

\* C1: no evolution-chain URL is requested twice in a run; the first id that
\* names a URL fetches it, and an id that names a cached URL gets the stored
\* mapping without any request.
C1_FetchedAtMostOnce == []C1_State /\ [][C1_Step]_vars

\* id 2 is about to be written from the mapping that id 1 fetched
C1_Witness ==
    /\ pc = "write" /\ id = 2
    /\ RequestsOf(2, "chain") = {}
    /\ RequestsOf(1, "chain") # {}
    /\ evo_dict = evo_cache[evolution_chain_url]

----------------------------------------------------------------------------
(* C3 *)

C3_State ==
    /\ \A i \in DOMAIN requests :
           Failing(requests[i]) =>
               /\ pc = "failed"
               /\ i = Len(requests)
               /\ id = requests[i].id
               /\ Len(DataRows) = requests[i].id - 1
    /\ pc = "failed" => requests # <<>> /\ Failing(Last(requests))
    \* every stat column of a written row is the base_stat the server gave
    /\ \A k \in 1..Len(DataRows) :
           LET stats == Answer(k, "pokemon").stats
               row == DataRows[k]
           IN \A n \in 1..Len(RequiredStats) : \E i \in 1..Len(stats) :
                  /\ stats[i].stat.name = RequiredStats[n]
                  /\ stats[i].base_stat = Column(row, StatColumns[n])

C3_Step ==
    /\ pc = "failed" => UNCHANGED vars
    /\ \A i \in 1..Len(csvfile) : i <= Len(csvfile') /\ csvfile'[i] = csvfile[i]
    /\ pc' = "failed" => csvfile' = csvfile /\ evo_cache' = evo_cache

\* C3: a failing response for id k (an HTTP error, a Pokemon payload without a
\* required stat, a chain node without a species name) ends the run in the
\* failure state at once: it is the last request, the rows written are those
\* of ids 1..k-1 and never change, and no written row holds a made-up stat.
C3_FailureAborts == []C3_State /\ [][C3_Step]_vars

\* the Pokemon payload of id 2 lacks "speed": one row written, run failed
C3_Witness ==
    /\ pc = "failed" /\ id = 2 /\ Len(DataRows) = 1
    /\ Last(requests).kind = "pokemon"
    /\ Last(requests).response.status_code = 200

----------------------------------------------------------------------------
(* C6 *)

C6_State ==
    \A k \in 1..Len(DataRows) :
        /\ ChainUrlOf(k) \in DOMAIN evo_cache
        /\ Column(DataRows[k], "name") \notin DOMAIN evo_cache[ChainUrlOf(k)] =>
               /\ Column(DataRows[k], "evolution_from") = ""
               /\ Column(DataRows[k], "evolution_to") = ""

C6_Step ==
    (pc = "write" /\ basic.name \notin DOMAIN evo_dict) =>
        /\ Len(csvfile') = Len(csvfile) + 1
        /\ Column(Last(csvfile'), "id") = id
        /\ Column(Last(csvfile'), "evolution_from") = ""
        /\ Column(Last(csvfile'), "evolution_to") = ""
        /\ pc' = IF id < LastId THEN "pokemon" ELSE "done"
        /\ evo_cache' = evo_cache

\* C6: when the species name is no key of the mapping resolved for its chain
\* URL, its row is written with empty evolution_from and evolution_to, the
\* run goes on to the next id, and the stored mapping is left as it was.
C6_AbsentSpecies == []C6_State /\ [][C6_Step]_vars

\* venusaur was written against the chain bulbasaur -> ivysaur and the run
\* went on
C6_Witness ==
    /\ Len(DataRows) >= 1 /\ id = 2 /\ pc = "pokemon"
    /\ Column(DataRows[1], "name") = "venusaur"
    /\ DOMAIN evo_cache[ChainUrlOf(1)] = {"bulbasaur", "ivysaur"}

----------------------------------------------------------------------------
(* C8 *)

\* the first n items with ", " between them
RECURSIVE CommaSeparated(_, _)
CommaSeparated(items, n) ==
    IF n = 0 THEN ""
    ELSE IF n = 1 THEN items[1]
    ELSE CommaSeparated(items, n - 1) \o ", " \o items[n]

C8_Rows ==
    \A k \in 1..Len(DataRows) :
        LET row == DataRows[k]
            nm == Column(row, "name")
            mapping == evo_cache[ChainUrlOf(k)]
        IN nm \in DOMAIN mapping =>
               /\ Column(row, "evolution_from") =
                      (IF mapping[nm].from = NoneValue THEN "" ELSE mapping[nm].from)
               /\ Column(row, "evolution_to") =
                      CommaSeparated(mapping[nm].to, Len(mapping[nm].to))

\* ids 1, 2, 3 are bulbasaur, ivysaur, venusaur, their species data name one
\* chain URL, and the server answered that URL with bulbasaur -> ivysaur ->
\* venusaur
C8_Scenario ==
    /\ Len(DataRows) >= 3
    /\ Column(DataRows[1], "name") = "bulbasaur"
    /\ Column(DataRows[2], "name") = "ivysaur"
    /\ Column(DataRows[3], "name") = "venusaur"
    /\ ChainUrlOf(2) = ChainUrlOf(1) /\ ChainUrlOf(3) = ChainUrlOf(1)
    /\ ChainAnswer(ChainUrlOf(1)) = LinearChain

C8_ScenarioRows ==
    /\ Column(DataRows[1], "evolution_from") = ""
    /\ Column(DataRows[1], "evolution_to") = "ivysaur"
    /\ Column(DataRows[2], "evolution_from") = "bulbasaur"
    /\ Column(DataRows[2], "evolution_to") = "venusaur"
    /\ Column(DataRows[3], "evolution_from") = "ivysaur"
    /\ Column(DataRows[3], "evolution_to") = ""
    /\ RequestsOf(1, "chain") # {}
    /\ RequestsOf(2, "chain") = {} /\ RequestsOf(3, "chain") = {}

\* C8: the row of a species that is a key of its resolved mapping holds the
\* predecessor's name ("" for the root) and the successors' names joined by
\* ", " in source order ("" when there are none); for bulbasaur -> ivysaur ->
\* venusaur the rows of ids 1, 2, 3 are ""/"ivysaur", "bulbasaur"/"venusaur",
\* "ivysaur"/"", the chain fetched for id 1 only.
C8_EvolutionColumns == C8_Rows /\ (C8_Scenario => C8_ScenarioRows)

C8_Witness == C8_Scenario /\ C8_ScenarioRows

----------------------------------------------------------------------------
(* C9 *)

KindRank(kind) == CASE kind = "pokemon" -> 1 [] kind = "species" -> 2 [] kind = "chain" -> 3

C9_State ==
    \* no request for an id before the rows of all earlier ids are written
    /\ \A i \in DOMAIN requests :
           \/ requests[i].id = id
           \/ (requests[i].id < id /\ requests[i].id <= Len(DataRows))
    /\ Len(DataRows) \in {id - 1, id}
    \* requests are issued id by id and, within an id, Pokemon, species, chain
    /\ \A i, j \in DOMAIN requests :
           i < j =>
               \/ requests[i].id < requests[j].id
               \/ /\ requests[i].id = requests[j].id
                  /\ KindRank(requests[i].kind) < KindRank(requests[j].kind)
    \* a written row has all the fetches of its id behind it
    /\ \A k \in 1..Len(DataRows) :
           /\ \E i \in RequestsOf(k, "pokemon") : ~Failing(requests[i])
           /\ \E i \in RequestsOf(k, "species") : ~Failing(requests[i])
           /\ ChainUrlOf(k) \in DOMAIN evo_cache
           /\ \E i \in ChainRequestsFor(ChainUrlOf(k)) :
                  requests[i].id <= k /\ ~Failing(requests[i])

C9_Step ==
    /\ requests' # requests =>
           /\ csvfile' = csvfile
           /\ Len(DataRows) = id - 1
           /\ Last(requests').id = id
           /\ Last(requests').kind = "chain" =>
                  Last(requests').url \notin DOMAIN evo_cache
    /\ (csvfile' # csvfile /\ pc # "open") =>
           /\ requests' = requests
           /\ Column(Last(csvfile'), "id") = id

\* C9: the steps of an id happen in the order Pokemon fetch, species fetch,
\* evolution mapping (a chain fetch only for a URL not cached), row; no request
\* is issued for the next id before the row of this one is written, and no row
\* is written before the fetches of its id are done.
C9_Sequential == []C9_State /\ [][C9_Step]_vars

\* id 2 is being fetched after id 1 went through all three requests and its
\* row
C9_Witness ==
    /\ id = 2 /\ pc = "species"
    /\ Len(DataRows) = 1
    /\ Len(requests) = 4
    /\ requests[3].kind = "chain" /\ requests[4].id = 2

----------------------------------------------------------------------------
(* C10 *)

C10_Step ==
    /\ DOMAIN evo_cache \subseteq DOMAIN evo_cache'
    /\ \A u \in DOMAIN evo_cache : evo_cache'[u] = evo_cache[u]
    /\ pc' = "failed" => evo_cache' = evo_cache
    /\ evo_cache' # evo_cache =>
           /\ Len(requests') = Len(requests) + 1
           /\ Last(requests').kind = "chain"
           /\ ~Failing(Last(requests'))
           /\ Last(requests').url \notin DOMAIN evo_cache
           /\ DOMAIN evo_cache' = DOMAIN evo_cache \cup {Last(requests').url}

\* C10: the cache is empty at the start; a step never removes or changes an
\* entry; an entry is added only by a step that fetched and parsed the chain
\* of a URL not yet cached, and a failing step adds none.
C10_CacheGrowsOnly == (evo_cache = EmptyDict) /\ [][C10_Step]_vars

\* two chains are cached and id 3 is served from the cache
C10_Witness ==
    /\ Cardinality(DOMAIN evo_cache) = 2
    /\ id = 3 /\ pc = "write"
    /\ RequestsOf(3, "chain") = {}

====
